---- MODULE Spec2Model ----
(***************************************************************************)
(* Time-series distributions of pymc3/distributions/timeseries.py: AR,     *)
(* GaussianRandomWalk, GARCH11 and EulerMaruyama.                          *)
(*                                                                         *)
(* Every operation of the file is a pure function of a parameter bundle    *)
(* and an argument.  A call is modelled as a state machine with three      *)
(* variables: the arguments of the call (inp), the position of the call    *)
(* (pc: "ready" before, "done" after) and what it returned (out).          *)
(*                                                                         *)
(* Numbers are exact rationals [n |-> numerator, d |-> denominator > 0] in *)
(* lowest terms.  A tensor is [nd |-> 0, v |-> <<rational>>] (a scalar) or *)
(* [nd |-> 1, v |-> sequence of rationals] (a vector).  Sequences are      *)
(* 1-based here and 0-based in the source: source index i is i + 1 here.   *)
(***************************************************************************)
EXTENDS Integers, Sequences, FiniteSets, Bags, TLC

VARIABLES pc, inp, out

vars == <<pc, inp, out>>

\* ------------------------------------------------------------------ bounds

\* Longest value sequence x handed to a logp / get_volatility call.
MaxLen == 3

\* Longest rho coefficient list of an AR distribution.
MaxRho == 3

\* Largest number of dimensions of a shape argument.
MaxDims == 2

\* Largest extent of one dimension of a shape argument.
MaxDim == 3

\* Largest number of replications (size) and of time steps of a random() call.
MaxBatch == 2

MaxSteps == 3

\* --------------------------------------------------------- exact rationals

Abs(a) == IF a < 0 THEN -a ELSE a

RECURSIVE GCD(_, _)
GCD(a, b) == IF b = 0 THEN a ELSE GCD(b, a % b)

\* The rational num/den (den # 0) in lowest terms with a positive denominator.
Rat(num, den) ==
    LET s == IF den < 0 THEN -1 ELSE 1
        g == GCD(Abs(num), Abs(den))
    IN  [n |-> (s * num) \div g, d |-> (s * den) \div g]

R(i) == [n |-> i, d |-> 1]

RAdd(a, b) == Rat(a.n * b.d + b.n * a.d, a.d * b.d)

RSub(a, b) == Rat(a.n * b.d - b.n * a.d, a.d * b.d)

RMul(a, b) == Rat(a.n * b.n, a.d * b.d)

RSquare(a) == RMul(a, a)

RInv(a) == Rat(a.d, a.n)

IsSquare(k) == \E r \in 0..k : r * r = k

ISqrt(k) == CHOOSE r \in 0..k : r * r = k

\* The square root of a non-negative rational that has a rational root.
RSqrt(a) == [n |-> ISqrt(a.n), d |-> ISqrt(a.d)]

\* An optional argument: Python's None, or a tensor.
None == [some |-> FALSE, v |-> [nd |-> 0, v |-> <<R(0)>>]]

Some(t) == [some |-> TRUE, v |-> t]

\* ----------------------------------------------------------------- tensors

Scalar(r) == [nd |-> 0, v |-> <<r>>]

\* The number a scalar tensor holds.
Item(t) == t.v[1]

Vector(s) == [nd |-> 1, v |-> s]

\* Python's seq[lo:hi] with its negative indices and clamping; lo, hi are the
\* source's 0-based bounds.
PySlice(s, lo, hi) ==
    LET len == Len(s)
        fix(i) == IF i < 0 THEN (IF i + len < 0 THEN 0 ELSE i + len)
                  ELSE (IF i > len THEN len ELSE i)
        a == fix(lo)
        b == fix(hi)
    IN  IF b <= a THEN <<>> ELSE [k \in 1..(b - a) |-> s[a + k]]

\* seq[lo:]
PySliceFrom(s, lo) == PySlice(s, lo, Len(s))

\* seq[:hi]
PySliceTo(s, hi) == PySlice(s, 0, hi)

\* What an operation on tensors of incompatible shapes, or on no tensor at
\* all, leaves: the call raises.
Raised == [nd |-> -1, v |-> <<>>]

\* One element of a log-density: Normal's (-tau*(value-mu)^2 + log(tau/pi/2))/2
\* is determined by q = tau*(value-mu)^2 and tau, and is kept as that pair;
\* Flat's is the number 0.
NormalTerm(q, tau) == [kind |-> "normal", q |-> q, tau |-> tau]

ZeroTerm == [kind |-> "zero", q |-> R(0), tau |-> R(0)]

\* The scalar operations the tensor expressions of the file are built from.
scalar_op(op, x, y) ==
    CASE op = "add" -> RAdd(x, y)
      [] op = "sub" -> RSub(x, y)
      [] op = "mul" -> RMul(x, y)
      [] op = "inv_mul" -> RInv(RMul(x, y))
      [] op = "inv_sqrt" -> RInv(RSqrt(x))
      [] op = "normal_logp" -> NormalTerm(x, y)

\* An elementwise binary operation with numpy/theano broadcasting: a scalar
\* and a vector of length 1 stretch to the other operand's length.
Elemwise(op, a, b) ==
    IF a.nd = -1 \/ b.nd = -1 THEN Raised
    ELSE IF a.nd = 0 /\ b.nd = 0 THEN Scalar(scalar_op(op, Item(a), Item(b)))
    ELSE IF a.nd = 0 THEN Vector([k \in 1..Len(b.v) |-> scalar_op(op, Item(a), b.v[k])])
    ELSE IF b.nd = 0 THEN Vector([k \in 1..Len(a.v) |-> scalar_op(op, a.v[k], Item(b))])
    ELSE IF Len(a.v) = Len(b.v)
         THEN Vector([k \in 1..Len(a.v) |-> scalar_op(op, a.v[k], b.v[k])])
    ELSE IF Len(a.v) = 1 THEN Vector([k \in 1..Len(b.v) |-> scalar_op(op, a.v[1], b.v[k])])
    ELSE IF Len(b.v) = 1 THEN Vector([k \in 1..Len(a.v) |-> scalar_op(op, a.v[k], b.v[1])])
    ELSE Raised

TAdd(a, b) == Elemwise("add", a, b)

TSub(a, b) == Elemwise("sub", a, b)

TMul(a, b) == Elemwise("mul", a, b)

\* tt.add(*terms): the elementwise sum of one or more tensors; with no
\* argument the call raises.
RECURSIVE tt_add(_)
tt_add(terms) ==
    IF terms = <<>> THEN Raised
    ELSE IF Len(terms) = 1 THEN terms[1]
    ELSE TAdd(tt_add(SubSeq(terms, 1, Len(terms) - 1)), terms[Len(terms)])

\* ------------------------------------------------------------- log-density

\* Normal.dist(mu=mu, tau=tau).logp(value), elementwise.
Normal_logp_tau(mu, tau, value) ==
    LET dev == TSub(value, mu)
        q   == TMul(tau, TMul(dev, dev))
    IN  Elemwise("normal_logp", q, tau)

\* Normal.dist(mu=mu, sigma=sigma).logp(value): tau = sigma^-2.
Normal_logp_sigma(mu, sigma, value) ==
    Normal_logp_tau(mu, Elemwise("inv_mul", sigma, sigma), value)

\* Flat.logp(value): zeros of value's shape.
Flat_logp(value) ==
    IF value.nd = 0 THEN Scalar(ZeroTerm)
    ELSE Vector([k \in 1..Len(value.v) |-> ZeroTerm])

\* init.logp(value) for the initial-value distributions tried: Flat, and
\* Normal(0, sigma).
init_logp(init, value) ==
    IF init.kind = "Flat" THEN Flat_logp(value)
    ELSE Normal_logp_sigma(Scalar(R(0)), Scalar(init.sigma), value)

RECURSIVE SeqToBag(_)
SeqToBag(s) ==
    IF s = <<>> THEN EmptyBag
    ELSE IF Head(s).kind = "zero" THEN SeqToBag(Tail(s))
    ELSE SeqToBag(Tail(s)) (+) SetToBag({Head(s)})

\* tt.sum of a tensor of log-density elements: the bag of its non-zero
\* elements (a sum does not depend on the order of its terms, and 0 adds
\* nothing).
tt_sum(t) == SeqToBag(t.v)

\* ------------------------------------------------------------ construction

\* The configuration error of a bad scale pair, the error of a zero shape.
ConfigError == "ValueError"

ShapeError == "TypeError"

Failed(e) == [ok |-> FALSE, err |-> e]

\* continuous.get_tau_sigma: exactly one of tau and sigma must be given; the
\* other is derived, elementwise, from tau = sigma^-2.
get_tau_sigma(tau, sigma) ==
    IF tau.some = sigma.some
    THEN Failed(ConfigError)
    ELSE IF sigma.some
         THEN [ok |-> TRUE, err |-> "",
               tau |-> Elemwise("inv_mul", sigma.v, sigma.v), sigma |-> sigma.v]
         ELSE [ok |-> TRUE, err |-> "",
               tau |-> tau.v, sigma |-> Elemwise("inv_sqrt", tau.v, tau.v)]

\* A constructor that forgets the sd alias of sigma.
AR_init_NoSdAlias(rho, sigma, tau, constant, init, sd) ==
    LET ts == get_tau_sigma(tau, sigma)
        p  == Len(rho)
    IN  IF ~ts.ok THEN ts
        ELSE [ok |-> TRUE, err |-> "", sigma |-> ts.sigma, tau |-> ts.tau,
              p |-> IF constant THEN p - 1 ELSE p,
              constant |-> constant, rho |-> rho, init |-> init]

\* AR.__init__ for rho given as a list.
AR_init(rho, sigma, tau, constant, init, sd) ==
    LET sigma1 == IF sd.some THEN sd ELSE sigma
        ts     == get_tau_sigma(tau, sigma1)
        p      == Len(rho)
    IN  IF ~ts.ok THEN ts
        ELSE [ok |-> TRUE, err |-> "", sigma |-> ts.sigma, tau |-> ts.tau,
              p |-> IF constant THEN p - 1 ELSE p,
              constant |-> constant, rho |-> rho, init |-> init]

RECURSIVE SumDims(_)
SumDims(dims) == IF dims = <<>> THEN 0 ELSE Head(dims) + SumDims(Tail(dims))

RECURSIVE ProdDims(_)
ProdDims(dims) == IF dims = <<>> THEN 1 ELSE Head(dims) * ProdDims(Tail(dims))

\* kwargs.setdefault('shape', 1) followed by the base class's normalisation
\* of the shape argument to a one-dimensional array of extents.
default_shape(shape) == IF shape.given THEN shape.dims ELSE <<1>>

\* GaussianRandomWalk.__init__.
GRW_init(tau, init, sigma, mu, sd, shape) ==
    LET self_shape == default_shape(shape)
    IN  IF SumDims(self_shape) = 0 THEN Failed(ShapeError)
        ELSE LET sigma1 == IF sd.some THEN sd ELSE sigma
                 ts     == get_tau_sigma(tau, sigma1)
             IN  IF ~ts.ok THEN ts
                 ELSE [ok |-> TRUE, err |-> "", tau |-> ts.tau, sigma |-> ts.sigma,
                       mu |-> mu, init |-> init, shape |-> self_shape]

\* ------------------------------------------------- construction: the calls

SeqsUpTo(S, lo, hi) == UNION {[1..k -> S] : k \in lo..hi}

\* The scale arguments tried: absent, or a value whose dual is rational.
SigmaArgs == {None, Some(Scalar(R(1))), Some(Scalar(R(2)))}

TauArgs == {None, Some(Scalar(R(1))), Some(Scalar(R(4)))}

SdArgs == {None, Some(Scalar(R(3)))}

ShapeArgs ==
    {[given |-> FALSE, dims |-> <<>>]}
    \cup {[given |-> TRUE, dims |-> ds] : ds \in SeqsUpTo(0..MaxDim, 1, MaxDims)}

NoShape == [given |-> FALSE, dims |-> <<>>]

FlatInit == [kind |-> "Flat", sigma |-> R(0)]

NormalInit == [kind |-> "Normal", sigma |-> R(1)]

InitCtor ==
    /\ pc = "ready"
    /\ out = Failed("")
    /\ \E cls \in {"AR", "GaussianRandomWalk"}, sigma \in SigmaArgs, tau \in TauArgs,
          sd \in SdArgs, shape \in ShapeArgs, L \in 1..MaxRho, constant \in BOOLEAN :
          /\ cls = "AR" => shape = NoShape
          /\ cls = "GaussianRandomWalk" => (L = 1 /\ ~constant)
          /\ inp = [cls |-> cls, sigma |-> sigma, tau |-> tau, sd |-> sd, shape |-> shape,
                    rho |-> [i \in 1..L |-> R(1)], constant |-> constant]

ConstructAR ==
    /\ pc = "ready"
    /\ inp.cls = "AR"
    /\ out' = AR_init(inp.rho, inp.sigma, inp.tau, inp.constant, FlatInit, inp.sd)
    /\ pc' = "done"
    /\ UNCHANGED inp

ConstructGRW ==
    /\ pc = "ready"
    /\ inp.cls = "GaussianRandomWalk"
    /\ out' = GRW_init(inp.tau, FlatInit, inp.sigma, Scalar(R(0)), inp.sd, inp.shape)
    /\ pc' = "done"
    /\ UNCHANGED inp

NextCtor == ConstructAR \/ ConstructGRW

SpecCtor == InitCtor /\ [][NextCtor]_vars

\* The std-dev scale as the constructor sees it: sigma, or its alias sd.
StdDevGiven == inp.sigma.some \/ inp.sd.some

PrecisionGiven == inp.tau.some

\* C1: constructing AR or GaussianRandomWalk with both a std-dev scale (sigma or
\* its alias sd) and tau, or with none of them, fails, and with the configuration
\* error when no shape argument can fail first; construction succeeds only with
\* exactly one of the two scales, and AR then always succeeds.
C1_ScaleDuality ==
    pc = "done" =>
        /\ (StdDevGiven /\ PrecisionGiven) => ~out.ok
        /\ (~StdDevGiven /\ ~PrecisionGiven) => ~out.ok
        /\ out.ok => (StdDevGiven # PrecisionGiven)
        /\ (StdDevGiven = PrecisionGiven /\ (inp.cls = "AR" \/ ~inp.shape.given))
               => out.err = ConfigError
        /\ (StdDevGiven # PrecisionGiven /\ inp.cls = "AR") => out.ok

C1_Witness ==
    /\ pc = "done"
    /\ inp.cls = "AR"
    /\ inp.sd.some /\ ~inp.sigma.some /\ inp.tau.some
    /\ ~out.ok /\ out.err = ConfigError

\* C2: GaussianRandomWalk construction fails for every shape with no elements
\* and succeeds, the scale permitting, for every shape with at least one; an
\* absent shape is 1.
C2_ZeroLengthShapeFails ==
    (pc = "done" /\ inp.cls = "GaussianRandomWalk") =>
        LET numel == ProdDims(default_shape(inp.shape))
        IN  /\ numel = 0 => (~out.ok /\ out.err = ShapeError)
            /\ (numel > 0 /\ StdDevGiven # PrecisionGiven) => out.ok

\* ---------------------------------------------------------------- AR.logp

\* A logp that applies the coefficients in reverse: rho[p-1-i] to the value
\* lagged by i+1 steps.
AR_logp_RhoReversed(self, value) ==
    LET p      == self.p
        rho    == self.rho
        val    == value.v
        lagged(i) == Vector(PySlice(val, p - (i + 1), -(i + 1)))
        x      == IF self.constant
                  THEN tt_add([k \in 1..p |-> TMul(Scalar(rho[k + 1]), lagged(k - 1))])
                  ELSE IF p = 1
                       THEN TMul(Vector(rho), Vector(PySliceTo(val, -1)))
                       ELSE tt_add([k \in 1..p |-> TMul(Scalar(rho[p + 1 - k]), lagged(k - 1))])
        eps    == IF self.constant
                  THEN TSub(TSub(Vector(PySliceFrom(val, p)), Scalar(rho[1])), x)
                  ELSE TSub(Vector(PySliceFrom(val, p)), x)
        innov_like == Normal_logp_tau(Scalar(R(0)), self.tau, eps)
        init_arg   == Vector(PySliceTo(val, p))
        init_like  == init_logp(self.init, init_arg)
    IN  IF eps.nd = -1 THEN Failed("raised")
        ELSE [ok |-> TRUE, err |-> "", eps |-> eps.v, init_arg |-> init_arg.v,
              innov_like |-> innov_like.v,
              logp |-> tt_sum(innov_like) (+) tt_sum(init_like)]

\* AR.logp(value) of a constructed AR distribution (self); value a vector.
AR_logp(self, value) ==
    LET p      == self.p
        rho    == self.rho
        val    == value.v
        lagged(i) == Vector(PySlice(val, p - (i + 1), -(i + 1)))
        x      == IF self.constant
                  THEN tt_add([k \in 1..p |-> TMul(Scalar(rho[k + 1]), lagged(k - 1))])
                  ELSE IF p = 1
                       THEN TMul(Vector(rho), Vector(PySliceTo(val, -1)))
                       ELSE tt_add([k \in 1..p |-> TMul(Scalar(rho[k]), lagged(k - 1))])
        eps    == IF self.constant
                  THEN TSub(TSub(Vector(PySliceFrom(val, p)), Scalar(rho[1])), x)
                  ELSE TSub(Vector(PySliceFrom(val, p)), x)
        innov_like == Normal_logp_tau(Scalar(R(0)), self.tau, eps)
        init_arg   == Vector(PySliceTo(val, p))
        init_like  == init_logp(self.init, init_arg)
    IN  IF eps.nd = -1 THEN Failed("raised")
        ELSE [ok |-> TRUE, err |-> "", eps |-> eps.v, init_arg |-> init_arg.v,
              innov_like |-> innov_like.v,
              logp |-> tt_sum(innov_like) (+) tt_sum(init_like)]

Half == Rat(1, 2)

Values == {R(1), R(2), R(3)}

RhoValues == {Half, R(-1)}

InitARlogp ==
    /\ pc = "ready"
    /\ out = Failed("")
    /\ \E rho \in SeqsUpTo(RhoValues, 1, MaxRho), constant \in BOOLEAN,
          init \in {FlatInit, NormalInit}, value \in SeqsUpTo(Values, 1, MaxLen) :
          /\ Len(value) >= (IF constant THEN Len(rho) - 1 ELSE Len(rho))
          /\ inp = [rho |-> rho, sigma |-> R(2), constant |-> constant, init |-> init,
                    value |-> value]

CallARlogp ==
    /\ pc = "ready"
    /\ out' = AR_logp(AR_init(inp.rho, Some(Scalar(inp.sigma)), None, inp.constant, inp.init, None),
                      Vector(inp.value))
    /\ pc' = "done"
    /\ UNCHANGED inp

NextARlogp == CallARlogp

SpecAR == InitARlogp /\ [][NextARlogp]_vars

RECURSIVE RSumSeq(_)
RSumSeq(s) == IF s = <<>> THEN R(0) ELSE RAdd(Head(s), RSumSeq(Tail(s)))

\* The residual at position t (1-based, t > p) of inp.value when the
\* coefficient of the value lagged by i steps is the (i + skip)-th of inp.rho
\* and the intercept is c.
Residual(skip, c, p, t) ==
    RSub(RSub(inp.value[t], c),
         RSumSeq([i \in 1..p |-> RMul(inp.rho[i + skip], inp.value[t - i])]))

\* C3: without a constant and with p = len(rho) >= 1, AR.logp forms n - p
\* residuals eps[j] = value[p+j] - sum_i rho[i]*value[p+j-1-i], scores them under
\* Normal(0, tau) and scores exactly value[0..p-1] under init, so each element of
\* value is scored once; rho = [0.5], x = [1,2,3] gives residuals [1.5, 2.0].
C3_ResidualsNoConstant ==
    (pc = "done" /\ ~inp.constant) =>
        LET p   == Len(inp.rho)
            n   == Len(inp.value)
            tau == Rat(1, 4)
        IN  /\ out.ok
            /\ Len(out.eps) = n - p
            /\ \A j \in 1..(n - p) :
                  /\ out.eps[j] = Residual(0, R(0), p, p + j)
                  /\ out.innov_like[j] = NormalTerm(RMul(tau, RSquare(out.eps[j])), tau)
            /\ out.init_arg = SubSeq(inp.value, 1, p)
            /\ Len(out.init_arg) + Len(out.eps) = n
            /\ out.logp = SeqToBag(out.innov_like)
                            (+) tt_sum(init_logp(inp.init, Vector(SubSeq(inp.value, 1, p))))
            /\ (inp.rho = <<Half>> /\ inp.value = <<R(1), R(2), R(3)>>)
                  => (out.eps = <<Rat(3, 2), R(2)>> /\ out.init_arg = <<R(1)>>)

C3_Witness ==
    /\ pc = "done" /\ ~inp.constant
    /\ inp.rho = <<Half>> /\ inp.value = <<R(1), R(2), R(3)>>
    /\ out.ok /\ out.eps = <<Rat(3, 2), R(2)>> /\ out.init_arg = <<R(1)>>

\* C4: with a constant and len(rho) = L >= 1 the lag order is p = L - 1, rho[0]
\* is the intercept and rho[i] multiplies the value lagged by i steps; the first
\* p values are scored under init; logp is defined for every such L, L = 1
\* included.
C4_ResidualsWithConstant ==
    (pc = "done" /\ inp.constant) =>
        LET p == Len(inp.rho) - 1
            n == Len(inp.value)
        IN  /\ out.ok
            /\ Len(out.eps) = n - p
            /\ \A j \in 1..(n - p) : out.eps[j] = Residual(1, inp.rho[1], p, p + j)
            /\ out.init_arg = SubSeq(inp.value, 1, p)

\* ------------------------------------------------- GaussianRandomWalk.logp

\* A helper that drops the last element of a vector instead of the first.
mu_and_sigma_DropLast(mu, sigma) ==
    [mu    |-> IF mu.nd > 0 THEN Vector(PySliceTo(mu.v, -1)) ELSE mu,
     sigma |-> IF sigma.nd > 0 THEN Vector(PySliceTo(sigma.v, -1)) ELSE sigma]

\* GaussianRandomWalk._mu_and_sigma.
mu_and_sigma(mu, sigma) ==
    [mu    |-> IF mu.nd > 0 THEN Vector(PySliceFrom(mu.v, 1)) ELSE mu,
     sigma |-> IF sigma.nd > 0 THEN Vector(PySliceFrom(sigma.v, 1)) ELSE sigma]

\* A logp that scores each value against the drift alone, not against its
\* predecessor plus the drift.
GRW_logp_NoPredecessor(self, x) ==
    IF x.nd > 0
    THEN LET x_i  == Vector(PySliceFrom(x.v, 1))
             ms   == mu_and_sigma(self.mu, self.sigma)
             innov_like == Normal_logp_sigma(ms.mu, ms.sigma, x_i)
             init_like  == init_logp(self.init, Scalar(x.v[1]))
         IN  IF innov_like.nd = -1 THEN Failed("raised")
             ELSE [ok |-> TRUE, err |-> "", innov_like |-> innov_like.v,
                   init_like |-> Item(init_like),
                   logp |-> tt_sum(init_like) (+) tt_sum(innov_like)]
    ELSE LET init_like == init_logp(self.init, x)
         IN  [ok |-> TRUE, err |-> "", innov_like |-> <<>>, init_like |-> Item(init_like),
              logp |-> tt_sum(init_like)]

\* GaussianRandomWalk.logp(x) of a constructed distribution (self).
GRW_logp(self, x) ==
    IF x.nd > 0
    THEN LET x_im1 == Vector(PySliceTo(x.v, -1))
             x_i   == Vector(PySliceFrom(x.v, 1))
             ms    == mu_and_sigma(self.mu, self.sigma)
             innov_like == Normal_logp_sigma(TAdd(x_im1, ms.mu), ms.sigma, x_i)
             init_like  == init_logp(self.init, Scalar(x.v[1]))
         IN  IF innov_like.nd = -1 THEN Failed("raised")
             ELSE [ok |-> TRUE, err |-> "", innov_like |-> innov_like.v,
                   init_like |-> Item(init_like),
                   logp |-> tt_sum(init_like) (+) tt_sum(innov_like)]
    ELSE LET init_like == init_logp(self.init, x)
         IN  [ok |-> TRUE, err |-> "", innov_like |-> <<>>, init_like |-> Item(init_like),
              logp |-> tt_sum(init_like)]

\* The walk a logp call is made on: built by the constructor from sigma.
Walk(mu, sigma, init) == GRW_init(None, init, Some(sigma), mu, None, NoShape)

WalkValues == {R(0), R(3)}

MuValues == {R(0), R(1)}

SigmaValues == {R(1), R(2)}

\* A scalar, or a vector as long as the walk.
ParamTensors(S, n) == {Scalar(r) : r \in S} \cup {Vector(v) : v \in [1..n -> S]}

InitGRWlogp ==
    /\ pc = "ready"
    /\ out = Failed("")
    /\ \E n \in 0..MaxLen, init \in {FlatInit, NormalInit} :
          \E x \in (IF n = 0 THEN {Scalar(r) : r \in WalkValues}
                              ELSE {Vector(v) : v \in [1..n -> WalkValues]}),
             mu \in (IF n = 0 THEN {Scalar(r) : r \in MuValues} ELSE ParamTensors(MuValues, n)),
             sigma \in (IF n = 0 THEN {Scalar(r) : r \in SigmaValues}
                                 ELSE ParamTensors(SigmaValues, n)) :
             inp = [x |-> x, mu |-> mu, sigma |-> sigma, init |-> init]

CallGRWlogp ==
    /\ pc = "ready"
    /\ out' = GRW_logp(Walk(inp.mu, inp.sigma, inp.init), inp.x)
    /\ pc' = "done"
    /\ UNCHANGED inp

NextGRWlogp == CallGRWlogp

SpecGRW == InitGRWlogp /\ [][NextGRWlogp]_vars

Shifts == {R(2), Half}

\* x + c, for a scalar or a vector x.
Shifted(x, c) == TAdd(x, Scalar(c))

\* C9: with a flat init, logp(x + c) = logp(x) for every sequence x and every
\* constant c; with a non-flat init the innovation terms are still the same and
\* the only term that changes is init.logp of the first element.
C9_TranslationInvariance ==
    (pc = "done" /\ inp.x.nd > 0) =>
        \A c \in Shifts :
            LET self == Walk(inp.mu, inp.sigma, inp.init)
                moved == GRW_logp(self, Shifted(inp.x, c))
            IN  /\ out.ok /\ moved.ok
                /\ moved.innov_like = out.innov_like
                /\ inp.init = FlatInit => moved.logp = out.logp
                /\ moved.init_like = Item(init_logp(inp.init, Scalar(RAdd(inp.x.v[1], c))))
                /\ moved.logp = SeqToBag(<<moved.init_like>>) (+) SeqToBag(out.innov_like)

C9_Witness ==
    /\ pc = "done"
    /\ inp.x = Vector(<<R(0), R(3), R(0)>>)
    /\ inp.init = FlatInit
    /\ inp.mu = Scalar(R(1))
    /\ out.ok /\ out.logp = GRW_logp(Walk(inp.mu, inp.sigma, inp.init),
                                     Vector(<<R(2), R(5), R(2)>>)).logp
    /\ out.logp # EmptyBag

\* Element t (0-based) of a parameter: the scalar itself, or the vector's t-th.
ParamAt(param, t) == IF param.nd = 0 THEN Item(param) ELSE param.v[t + 1]

\* A vector parameter with its first element replaced; a scalar unchanged.
WithFirst(param, r) ==
    IF param.nd = 0 THEN param ELSE Vector([k \in 1..Len(param.v) |-> IF k = 1 THEN r ELSE param.v[k]])

\* C10: for a sequence x of length n the increment x[t] - x[t-1] is scored with
\* mu[t] and sigma[t] for t in 1..n-1 when these are vectors of length n, whose
\* first elements never matter, and with the scalar itself otherwise, mu and
\* sigma independently; a scalar x is scored by init.logp(x) alone.
C10_DriftScaleAlignment ==
    pc = "done" =>
        IF inp.x.nd = 0
        THEN /\ out.ok
             /\ out.innov_like = <<>>
             /\ out.logp = tt_sum(init_logp(inp.init, inp.x))
        ELSE LET n == Len(inp.x.v)
                 term(t) ==
                     LET tau == RInv(RSquare(ParamAt(inp.sigma, t)))
                         dev == RSub(RSub(inp.x.v[t + 1], inp.x.v[t]), ParamAt(inp.mu, t))
                     IN  NormalTerm(RMul(tau, RSquare(dev)), tau)
             IN  /\ out.ok
                 /\ Len(out.innov_like) = n - 1
                 /\ \A t \in 1..(n - 1) : out.innov_like[t] = term(t)
                 /\ out.logp = tt_sum(init_logp(inp.init, Scalar(inp.x.v[1])))
                                 (+) SeqToBag(out.innov_like)
                 /\ \A m \in MuValues, sg \in SigmaValues :
                       GRW_logp(Walk(WithFirst(inp.mu, m), WithFirst(inp.sigma, sg), inp.init),
                                inp.x) = out

C10_Witness ==
    /\ pc = "done"
    /\ inp.x = Vector(<<R(0), R(3), R(3)>>)
    /\ inp.mu = Vector(<<R(1), R(0), R(1)>>)
    /\ inp.sigma = Scalar(R(2))
    /\ out.ok
    /\ out.innov_like = <<NormalTerm(Rat(9, 4), Rat(1, 4)), NormalTerm(Rat(1, 4), Rat(1, 4))>>

\* ------------------------------------------------------ EulerMaruyama.logp

\* The sde_fn functions tried: constant drift a and diffusion b, and the
\* linear drift a*x with constant diffusion b.
sde_fn(fn, x) ==
    IF fn.kind = "const" THEN [f |-> Scalar(fn.a), g |-> Scalar(fn.b)]
    ELSE [f |-> TMul(Scalar(fn.a), x), g |-> Scalar(fn.b)]

\* tt.sqrt of a scalar with a rational root.
tt_sqrt(t) == Scalar(RSqrt(Item(t)))

\* A logp whose one-step mean is dt*f alone, without the current state.
EM_logp_NoState(self, x) ==
    LET fg == sde_fn(self.sde_fn, Vector(PySliceTo(x.v, -1)))
        mu == TMul(self.dt, fg.f)
        sd == TMul(tt_sqrt(self.dt), fg.g)
        innov_like == Normal_logp_sigma(mu, sd, Vector(PySliceFrom(x.v, 1)))
    IN  IF innov_like.nd = -1 THEN Failed("raised")
        ELSE [ok |-> TRUE, err |-> "", innov_like |-> innov_like.v, logp |-> tt_sum(innov_like)]

\* EulerMaruyama.logp(x); self holds dt and sde_fn.
EM_logp(self, x) ==
    LET xt == Vector(PySliceTo(x.v, -1))
        fg == sde_fn(self.sde_fn, Vector(PySliceTo(x.v, -1)))
        mu == TAdd(xt, TMul(self.dt, fg.f))
        sd == TMul(tt_sqrt(self.dt), fg.g)
        innov_like == Normal_logp_sigma(mu, sd, Vector(PySliceFrom(x.v, 1)))
    IN  IF innov_like.nd = -1 THEN Failed("raised")
        ELSE [ok |-> TRUE, err |-> "", innov_like |-> innov_like.v, logp |-> tt_sum(innov_like)]

\* EulerMaruyama.__init__.
EM_init(dt, fn) == [dt |-> Scalar(dt), sde_fn |-> fn]

StepValues == {R(1), R(4), Rat(1, 4)}

SdeFns == {[kind |-> k, a |-> a, b |-> b] :
              k \in {"const", "linear"}, a \in {R(0), R(1)}, b \in {R(1), R(2)}}

PathValues == {R(0), R(1), R(3)}

InitEMlogp ==
    /\ pc = "ready"
    /\ out = Failed("")
    /\ \E dt \in StepValues, fn \in SdeFns, x \in SeqsUpTo(PathValues, 1, MaxLen) :
          inp = [dt |-> dt, sde_fn |-> fn, x |-> x]

CallEMlogp ==
    /\ pc = "ready"
    /\ out' = EM_logp(EM_init(inp.dt, inp.sde_fn), Vector(inp.x))
    /\ pc' = "done"
    /\ UNCHANGED inp

NextEMlogp == CallEMlogp

SpecEM == InitEMlogp /\ [][NextEMlogp]_vars

UnitSde == [kind |-> "const", a |-> R(0), b |-> R(1)]

\* C7: with dt = 1 and sde_fn returning drift 0 and diffusion 1, EulerMaruyama's
\* logp of every sequence x equals the logp of the GaussianRandomWalk with mu = 0,
\* sigma = 1 and the flat init: both score x[1:] against the means x[:-1] with
\* standard deviation 1, and the walk's init term is 0.
C7_EulerMaruyamaIsRandomWalk ==
    (pc = "done" /\ inp.dt = R(1) /\ inp.sde_fn = UnitSde) =>
        LET grw == GRW_logp(Walk(Scalar(R(0)), Scalar(R(1)), FlatInit), Vector(inp.x))
            n   == Len(inp.x)
        IN  /\ out.ok /\ grw.ok
            /\ out.logp = grw.logp
            /\ out.innov_like = grw.innov_like
            /\ grw.init_like = ZeroTerm
            /\ Len(out.innov_like) = n - 1
            /\ \A t \in 1..(n - 1) :
                  out.innov_like[t] = NormalTerm(RSquare(RSub(inp.x[t + 1], inp.x[t])), R(1))

C7_Witness ==
    /\ pc = "done" /\ inp.dt = R(1) /\ inp.sde_fn = UnitSde
    /\ inp.x = <<R(0), R(3), R(1)>>
    /\ out.ok
    /\ out.innov_like = <<NormalTerm(R(9), R(1)), NormalTerm(R(4), R(1))>>
    /\ out.logp = GRW_logp(Walk(Scalar(R(0)), Scalar(R(1)), FlatInit), Vector(inp.x)).logp

\* -------------------------------------------------- GARCH11.get_volatility

\* A volatility is a non-negative real, in general irrational: it is kept as
\* its square.  tt.sqrt of a non-negative rational, tt.square of a volatility
\* and the volatility a rational initial_vol >= 0 stands for:
vol_sqrt(r) == [sq |-> r]

vol_square(vol) == vol.sq

vol_of(r) == [sq |-> RSquare(r)]

\* The scan's step function volatility_update.
volatility_update(x, vol, w, a, b) ==
    vol_sqrt(RAdd(RAdd(w, RMul(a, RSquare(x))), RMul(b, vol_square(vol))))

\* The steps of a scan over one sequence with one recurrent output: fn is
\* applied to the elements from the first to the last, each time with the
\* output of the step before; the outputs of all steps are returned.
RECURSIVE scan_steps(_, _, _, _, _)
scan_steps(sequence, outputs_info, w, a, b) ==
    IF sequence = <<>> THEN <<>>
    ELSE LET vol == volatility_update(Head(sequence), outputs_info, w, a, b)
         IN  <<vol>> \o scan_steps(Tail(sequence), vol, w, a, b)

\* What a scan of zero steps does depends on the theano release the file runs
\* on: up to 1.0.4 evaluating it raises NotImplementedError, later releases
\* return no outputs.  TRUE: it raises.  The release is fixed before the
\* call, so it is drawn with the call's arguments.
ZeroStepScanRaises == BOOLEAN

\* theano.scan(fn=volatility_update, sequences=[x], outputs_info=[initial_vol],
\* non_sequences=[omega, alpha_1, beta_1]), evaluated on a theano whose
\* zero-step scan raises or not.
scan(sequence, outputs_info, w, a, b, raises) ==
    IF sequence = <<>> /\ raises
    THEN [ok |-> FALSE, err |-> "NotImplementedError", outputs |-> <<>>]
    ELSE [ok |-> TRUE, err |-> "", outputs |-> scan_steps(sequence, outputs_info, w, a, b)]

\* GARCH11.get_volatility(x), evaluated.
get_volatility(self, x, raises) ==
    LET x1  == PySliceTo(x, -1)
        vol == scan(x1, vol_of(self.initial_vol), self.omega, self.alpha_1, self.beta_1, raises)
    IN  IF ~vol.ok THEN [ok |-> FALSE, err |-> vol.err, vol |-> <<>>]
        ELSE [ok |-> TRUE, err |-> "", vol |-> <<vol_of(self.initial_vol)>> \o vol.outputs]

\* GARCH11.__init__.
GARCH_init(omega, alpha_1, beta_1, initial_vol) ==
    [omega |-> omega, alpha_1 |-> alpha_1, beta_1 |-> beta_1, initial_vol |-> initial_vol]

ReturnValues == {R(-1), R(0), R(2)}

InitGARCH ==
    /\ pc = "ready"
    /\ out = Failed("")
    /\ \E omega \in {R(1), R(2)}, alpha_1 \in {R(0), Half}, beta_1 \in {R(0), Half},
          initial_vol \in {R(0), R(1), R(2)}, x \in SeqsUpTo(ReturnValues, 1, MaxLen),
          raises \in ZeroStepScanRaises :
          inp = [omega |-> omega, alpha_1 |-> alpha_1, beta_1 |-> beta_1,
                 initial_vol |-> initial_vol, x |-> x, raises |-> raises]

CallGetVolatility ==
    /\ pc = "ready"
    /\ out' = get_volatility(GARCH_init(inp.omega, inp.alpha_1, inp.beta_1,
                                        inp.initial_vol), inp.x, inp.raises)
    /\ pc' = "done"
    /\ UNCHANGED inp

NextGARCH == CallGetVolatility

SpecGARCH == InitGARCH /\ [][NextGARCH]_vars

\* x with its last element replaced by y.
WithLast(x, y) == [k \in 1..Len(x) |-> IF k = Len(x) THEN y ELSE x[k]]

\* The volatilities returned are those of the recurrence: as many as x has
\* elements, initial_vol first, then vol[t]^2 = omega + alpha_1*x[t-1]^2
\* + beta_1*vol[t-1]^2; those of a prefix of x (of two elements or more) are a
\* prefix of those of x, and the last element of x changes nothing.
RecurrenceHolds ==
    LET n    == Len(inp.x)
        self == GARCH_init(inp.omega, inp.alpha_1, inp.beta_1, inp.initial_vol)
    IN  /\ out.ok
        /\ Len(out.vol) = n
        /\ out.vol[1] = vol_of(inp.initial_vol)
        /\ \A t \in 2..n :
              out.vol[t].sq = RAdd(RAdd(inp.omega, RMul(inp.alpha_1, RSquare(inp.x[t - 1]))),
                                   RMul(inp.beta_1, out.vol[t - 1].sq))
        /\ \A m \in 2..n :
              get_volatility(self, SubSeq(inp.x, 1, m), inp.raises).vol = SubSeq(out.vol, 1, m)
        /\ \A y \in ReturnValues : get_volatility(self, WithLast(inp.x, y), inp.raises) = out

\* C5: for every x of length n >= 1, get_volatility(x) has length n, starts
\* with initial_vol and has vol[t]^2 = omega + alpha_1*x[t-1]^2
\* + beta_1*vol[t-1]^2 for t in 1..n-1; vol[t] depends on x[0..t-1] only and
\* the last element of x on nothing.
C5_VolatilityRecurrence == pc = "done" => RecurrenceHolds

\* What the code does satisfy: the recurrence for every x of two elements or
\* more; for a single element, [initial_vol] unless the zero-step scan raises.
VolatilityRecurrenceFromTwo ==
    pc = "done" =>
        /\ Len(inp.x) >= 2 => RecurrenceHolds
        /\ Len(inp.x) = 1 =>
              IF inp.raises THEN ~out.ok /\ out.err = "NotImplementedError"
              ELSE out.ok /\ out.vol = <<vol_of(inp.initial_vol)>>

VolatilityRecurrenceReached ==
    /\ pc = "done"
    /\ inp.omega = R(1) /\ inp.alpha_1 = Half /\ inp.beta_1 = Half /\ inp.initial_vol = R(2)
    /\ inp.x = <<R(2), R(-1), R(0)>>
    /\ out.ok /\ out.vol = <<[sq |-> R(4)], [sq |-> R(5)], [sq |-> R(4)]>>

UnitGARCH ==
    /\ inp.omega = R(1) /\ inp.alpha_1 = R(0) /\ inp.beta_1 = R(0)
    /\ inp.initial_vol = R(1)

\* C6: with omega = 1, alpha_1 = 0, beta_1 = 0 and initial_vol = 1, for every x
\* of length >= 1 get_volatility(x) returns a sequence every element of which
\* equals initial_vol.
C6_ConstantVolatility ==
    (pc = "done" /\ UnitGARCH) =>
        /\ out.ok
        /\ Len(out.vol) = Len(inp.x)
        /\ \A t \in 1..Len(out.vol) : out.vol[t] = vol_of(inp.initial_vol)

\* What the code does satisfy: whenever get_volatility returns, with these
\* parameters every element equals initial_vol, and it returns for every x of
\* two elements or more.
ConstantVolatilityWhenReturned ==
    (pc = "done" /\ UnitGARCH) =>
        /\ Len(inp.x) >= 2 => out.ok
        /\ out.ok => /\ Len(out.vol) = Len(inp.x)
                     /\ \A t \in 1..Len(out.vol) : out.vol[t] = vol_of(inp.initial_vol)

ConstantVolatilityReached ==
    /\ pc = "done" /\ UnitGARCH
    /\ inp.x = <<R(2), R(-1), R(2)>>
    /\ out.ok /\ out.vol = <<[sq |-> R(1)], [sq |-> R(1)], [sq |-> R(1)]>>

\* ----------------------------------------------- GaussianRandomWalk.random

\* shape_utils.to_tuple(size): () for None, (k,) for an integer k.
to_tuple(size) == IF size.given THEN <<size.k>> ELSE <<>>

\* Python's == between an integer and a tuple: never equal.
int_eq_tuple(i, t) == FALSE

\* An array is [ndim |-> 1, a |-> <<row>>] or [ndim |-> 2, a |-> rows], the
\* rows of a two-dimensional array being its entries along axis 0.
Array1(row) == [ndim |-> 1, a |-> <<row>>]

Array2(rows) == [ndim |-> 2, a |-> rows]

RECURSIVE SumTo(_, _)
SumTo(row, k) == IF k = 0 THEN 0 ELSE SumTo(row, k - 1) + row[k]

\* numpy's ndarray.cumsum(axis=axis).
cumsum(arr, axis) ==
    IF arr.ndim = 1 \/ axis = 1
    THEN [arr EXCEPT !.a = [r \in 1..Len(arr.a) |->
                               [t \in 1..Len(arr.a[r]) |-> SumTo(arr.a[r], t)]]]
    ELSE [arr EXCEPT !.a = [r \in 1..Len(arr.a) |->
                               [t \in 1..Len(arr.a[r]) |->
                                   SumTo([q \in 1..Len(arr.a) |-> arr.a[q][t]], r)]]]

\* data - data[0]: of a one-dimensional array its first entry is taken from
\* every entry, of a two-dimensional array its first row from every row.
minus_first(arr) ==
    IF arr.ndim = 1
    THEN [arr EXCEPT !.a = [r \in 1..Len(arr.a) |->
                               [t \in 1..Len(arr.a[r]) |-> arr.a[r][t] - arr.a[r][1]]]]
    ELSE [arr EXCEPT !.a = [r \in 1..Len(arr.a) |->
                               [t \in 1..Len(arr.a[r]) |-> arr.a[r][t] - arr.a[1][t]]]]

\* GaussianRandomWalk._random; rvs is what rv.rvs(size) drew.
GRW_random_impl(rvs, size, sample_shape) ==
    LET axis == IF int_eq_tuple(size[Len(sample_shape) + 1], sample_shape)
                THEN Len(sample_shape) ELSE 0
        data == cumsum(rvs, axis)
    IN  minus_first(data)

\* distribution.generate_samples: the generator is called with the sample
\* shape followed by the distribution's shape as its size.
generate_samples_size(sample_shape, dist_shape) == sample_shape \o dist_shape

Increments == {1, 2}

\* The arrays rv.rvs(size) can return for a size of one or two dimensions.
Draws(size) ==
    IF Len(size) = 1 THEN {Array1(row) : row \in [1..size[1] -> Increments]}
    ELSE {Array2(rows) : rows \in [1..size[1] -> [1..size[2] -> Increments]]}

SizeArgs == {[given |-> FALSE, k |-> 0]} \cup {[given |-> TRUE, k |-> k] : k \in 1..MaxBatch}

InitRandom ==
    /\ pc = "ready"
    /\ out = Failed("")
    /\ \E size \in SizeArgs, steps \in 1..MaxSteps :
          inp = [size |-> size, shape |-> [given |-> TRUE, dims |-> <<steps>>]]

\* GaussianRandomWalk.random(point, size) of a walk of shape (steps,).
CallRandom ==
    /\ pc = "ready"
    /\ LET self == GRW_init(None, FlatInit, Some(Scalar(R(1))), Scalar(R(0)), None, inp.shape)
           sample_shape == to_tuple(inp.size)
           size == generate_samples_size(sample_shape, self.shape)
       IN  \E rvs \in Draws(size) :
              out' = [ok |-> TRUE, err |-> "", rvs |-> rvs,
                      data |-> GRW_random_impl(rvs, size, sample_shape)]
    /\ pc' = "done"
    /\ UNCHANGED inp

NextRandom == CallRandom

SpecRandom == InitRandom /\ [][NextRandom]_vars

\* C8: every path random() returns, with size absent or a batch of replications,
\* is the running sum of its own increments along the time axis and starts at
\* zero: path[0] = 0 and path[t] = inc[1] + ... + inc[t] of the same replication.
C8_PathsStartAtZero ==
    pc = "done" =>
        \A r \in 1..Len(out.data.a) :
            LET path == out.data.a[r]
                inc  == out.rvs.a[r]
            IN  /\ path[1] = 0
                /\ \A t \in 1..Len(path) : path[t] = SumTo(inc, t) - inc[1]

====
